---- MODULE Spec2Model ----
(***************************************************************************)
(* Data preparation tasks of the repository: the name canonicalizer        *)
(* (_column_wrangler), the categorical rule (_factor_wrangler) and the     *)
(* missing-value wrangler (wrangle_na, run by the flow                     *)
(* wrangle_na_pipeline).                                                   *)
(*                                                                         *)
(* A table is a record [index, columns]: index is the sequence of row      *)
(* identifiers, columns the sequence of columns, each a record             *)
(* [name, dtype, values] whose values are aligned with index.  A cell is   *)
(* NA (missing) or Val(v).  A float is an exact rational <<num, den>> in   *)
(* lowest terms with den > 0, so that a column mean is computed exactly.   *)
(***************************************************************************)
EXTENDS Integers, Sequences, FiniteSets, TLC

VARIABLES op, data, strategy, is_cat, categories, result, error, calls, tasks

vars == <<op, data, strategy, is_cat, categories, result, error, calls, tasks>>

(* Largest number of rows of an enumerated input table. *)
MaxRows == 3

(* Largest number of characters of an enumerated column label. *)
MaxLabelLen == 3

----------------------------------------------------------------------------
(* Cells *)

NA == <<>>

Val(v) == <<v>>

IsNA(c) == c = NA

NoTable == [index |-> <<>>, columns |-> <<>>]

----------------------------------------------------------------------------
(* Sequences *)

Range(s) == {s[i] : i \in 1..Len(s)}

(* The subsequence of s at the positions pos (a sequence of positions). *)
Take(s, pos) == [k \in 1..Len(pos) |-> s[pos[k]]]

RECURSIVE Concat(_)
Concat(ss) == IF ss = <<>> THEN <<>> ELSE Head(ss) \o Concat(Tail(ss))

----------------------------------------------------------------------------
(* Exact arithmetic on floats *)

RECURSIVE GCD(_, _)
GCD(a, b) == IF b = 0 THEN a ELSE GCD(b, a % b)

Abs(a) == IF a < 0 THEN -a ELSE a

Rat(n, d) ==
    LET g == GCD(Abs(n), Abs(d))
        s == IF d < 0 THEN -1 ELSE 1
    IN  <<(s * n) \div g, (s * d) \div g>>

RatAdd(a, b) == Rat(a[1] * b[2] + b[1] * a[2], a[2] * b[2])

RECURSIVE RatSum(_)
RatSum(s) == IF s = <<>> THEN <<0, 1>> ELSE RatAdd(Head(s), RatSum(Tail(s)))

----------------------------------------------------------------------------
(* Column statistics used by the fill strategies *)

(* The observed (non-missing) values of a column, in column order. *)
Observed(values) ==
    LET obs == SelectSeq(values, LAMBDA c : ~IsNA(c))
    IN  [k \in 1..Len(obs) |-> obs[k][1]]

(* Mean of the observed values of a float column. *)
Mean(obs) ==
    LET s == RatSum(obs) IN Rat(s[1], s[2] * Len(obs))

RECURSIVE SortInts(_)
SortInts(s) ==
    IF s = <<>> THEN <<>>
    ELSE LET m == CHOOSE i \in 1..Len(s) : \A j \in 1..Len(s) : s[i] <= s[j]
             rest == [k \in 1..(Len(s) - 1) |-> IF k < m THEN s[k] ELSE s[k + 1]]
         IN  <<s[m]>> \o SortInts(rest)

(* Median of the observed values of an integer column, as an integer: the  *)
(* middle value, or the mean of the two middle values truncated.           *)
Median(obs) ==
    LET srt == SortInts(obs)
        n == Len(srt)
    IN  IF n % 2 = 1 THEN srt[(n + 1) \div 2]
        ELSE (srt[n \div 2] + srt[n \div 2 + 1]) \div 2

Count(obs, v) == Cardinality({i \in 1..Len(obs) : obs[i] = v})

(* Most frequent observed value; of several, the one that is met first in  *)
(* column order.                                                           *)
Mode(obs) ==
    LET best == CHOOSE i \in 1..Len(obs) :
                    /\ \A j \in 1..Len(obs) : Count(obs, obs[j]) <= Count(obs, obs[i])
                    /\ \A j \in 1..(i - 1) : Count(obs, obs[j]) < Count(obs, obs[i])
    IN  obs[best]

(* FillValue with the integer columns filled as the categorical ones. *)
FillValueIntMode(col) ==
    LET obs == Observed(col.values)
    IN  CASE col.dtype = "float" -> Mean(obs)
          [] OTHER -> Mode(obs)

(* FillValue with the float columns filled as the categorical ones. *)
FillValueFloatMode(col) ==
    LET obs == Observed(col.values)
    IN  CASE col.dtype = "Int64" -> Median(obs)
          [] OTHER -> Mode(obs)

(* The value that replaces the missing cells of a column. *)
FillValue(col) ==
    LET obs == Observed(col.values)
    IN  CASE col.dtype = "float" -> Mean(obs)
          [] col.dtype = "Int64" -> Median(obs)
          [] OTHER -> Mode(obs)

(* FillColumn with a filled integer column widened to float. *)
FillColumnWiden(col) ==
    IF Observed(col.values) = <<>> \/ \A i \in 1..Len(col.values) : ~IsNA(col.values[i])
    THEN col
    ELSE [name |-> col.name,
          dtype |-> IF col.dtype = "Int64" THEN "float" ELSE col.dtype,
          values |-> [i \in 1..Len(col.values) |->
                        IF IsNA(col.values[i]) THEN Val(FillValue(col)) ELSE col.values[i]]]

(* A column with its missing cells filled; a column with no observed value *)
(* has nothing to fill from and is left as it is.                          *)
FillColumn(col) ==
    IF Observed(col.values) = <<>> THEN col
    ELSE [col EXCEPT !.values =
            [i \in 1..Len(col.values) |->
                IF IsNA(col.values[i]) THEN Val(FillValue(col)) ELSE col.values[i]]]

----------------------------------------------------------------------------
(* Missingness patterns *)

(* The default row identifiers 0, 1, ... of a table of n rows. *)
RangeIndex(n) == [i \in 1..n |-> i - 1]

NumRows(t) == Len(t.index)

NumCols(t) == Len(t.columns)

(* The pattern of row i: one bit per feature column, 1 where it is missing. *)
Pattern(t, i) ==
    [j \in 1..NumCols(t) |-> IF IsNA(t.columns[j].values[i]) THEN 1 ELSE 0]

IsComplete(t, i) == \A j \in 1..NumCols(t) : ~IsNA(t.columns[j].values[i])

RECURSIVE BitString(_)
BitString(bits) ==
    IF bits = <<>> THEN ""
    ELSE (IF Head(bits) = 1 THEN "1" ELSE "0") \o BitString(Tail(bits))

RECURSIVE PatternNumber(_)
PatternNumber(bits) ==
    IF bits = <<>> THEN 0
    ELSE 2 * PatternNumber(SubSeq(bits, 1, Len(bits) - 1)) + bits[Len(bits)]

(* The distinct patterns with at least one missing column that occur in t, *)
(* by decreasing bit string.                                               *)
RECURSIVE SortPatterns(_)
SortPatterns(S) ==
    IF S = {} THEN <<>>
    ELSE LET top == CHOOSE p \in S : \A q \in S : PatternNumber(q) <= PatternNumber(p)
         IN  <<top>> \o SortPatterns(S \ {top})

Patterns(t) ==
    SortPatterns({Pattern(t, i) : i \in {k \in 1..NumRows(t) : ~IsComplete(t, k)}})

IndicatorName(bits) == "na_" \o BitString(bits)

(* Indicator true in every row that misses the columns of the pattern. *)
IndicatorAtLeast(t, bits) ==
    [name |-> IndicatorName(bits),
     dtype |-> "boolean",
     values |-> [i \in 1..NumRows(t) |->
                    Val(\A j \in 1..Len(bits) : bits[j] = 1 => Pattern(t, i)[j] = 1)]]

(* The indicator column of a pattern: true in the rows that have it. *)
Indicator(t, bits) ==
    [name |-> IndicatorName(bits),
     dtype |-> "boolean",
     values |-> [i \in 1..NumRows(t) |-> Val(Pattern(t, i) = bits)]]

Indicators(t) == [k \in 1..Len(Patterns(t)) |-> Indicator(t, Patterns(t)[k])]

----------------------------------------------------------------------------
(* Strategies of wrangle_na *)

(* CompleteCase with the surviving rows renumbered. *)
CompleteCaseReset(t) ==
    LET keep == SelectSeq([i \in 1..NumRows(t) |-> i], LAMBDA i : IsComplete(t, i))
    IN  [index |-> RangeIndex(Len(keep)),
         columns |-> [j \in 1..NumCols(t) |->
                        [t.columns[j] EXCEPT !.values = Take(t.columns[j].values, keep)]]]

(* 'cc': the rows without any missing value, identifiers kept. *)
CompleteCase(t) ==
    LET keep == SelectSeq([i \in 1..NumRows(t) |-> i], LAMBDA i : IsComplete(t, i))
    IN  [index |-> Take(t.index, keep),
         columns |-> [j \in 1..NumCols(t) |->
                        [t.columns[j] EXCEPT !.values = Take(t.columns[j].values, keep)]]]

(* 'fi': every column filled on its own. *)
FillImputation(t) ==
    [t EXCEPT !.columns = [j \in 1..NumCols(t) |-> FillColumn(t.columns[j])]]

(* 'fii': 'fi' and the indicator columns of the patterns of t. *)
FillIndicators(t) ==
    [t EXCEPT !.columns = FillImputation(t).columns \o Indicators(t)]

(* InteractionName with the indicator first. *)
InteractionNameSwapped(f, d) == "Q(\"" \o d \o "\"):Q(\"" \o f \o "\")"

InteractionName(f, d) == "Q(\"" \o f \o "\"):Q(\"" \o d \o "\")"

(* InteractionCell with the filled value kept in every row. *)
InteractionCellKeep(filled, ind) == filled

(* A cell of the interaction of a filled feature with an indicator. *)
InteractionCell(filled, ind) == IF ind[1] THEN NA ELSE filled

Interaction(f, d) ==
    [name |-> InteractionName(f.name, d.name),
     dtype |-> f.dtype,
     values |-> [i \in 1..Len(f.values) |-> InteractionCell(f.values[i], d.values[i])]]

(* 'gm': 'fii' and the interaction of every feature with every indicator,  *)
(* feature by feature.                                                     *)
Interactions(t) ==
    LET fs == FillImputation(t).columns
        ds == Indicators(t)
    IN  Concat([j \in 1..Len(fs) |-> [k \in 1..Len(ds) |-> Interaction(fs[j], ds[k])]])

Gelman(t) ==
    [t EXCEPT !.columns = FillIndicators(t).columns \o Interactions(t)]

(* 'mice': one completed draw.  Every missing cell takes one of the        *)
(* observed values of its column; which one is not determined.             *)
RECURSIVE CellDraws(_, _)
CellDraws(values, pool) ==
    IF values = <<>> THEN {<<>>}
    ELSE {<<c>> \o rest :
            c \in (IF IsNA(Head(values)) /\ pool # {} THEN pool ELSE {Head(values)}),
            rest \in CellDraws(Tail(values), pool)}

ColumnDraws(col) ==
    {[col EXCEPT !.values = v] :
        v \in CellDraws(col.values, {Val(x) : x \in Range(Observed(col.values))})}

RECURSIVE ColumnsDraws(_)
ColumnsDraws(cols) ==
    IF cols = <<>> THEN {<<>>}
    ELSE {<<c>> \o rest : c \in ColumnDraws(Head(cols)), rest \in ColumnsDraws(Tail(cols))}

Mice(t) == {[t EXCEPT !.columns = cs] : cs \in ColumnsDraws(t.columns)}

(* The strategy selectors wrangle_na knows. *)
Strategies == {"cc", "fi", "fii", "gm", "mice"}

NoError == [kind |-> "", name |-> ""]

ConfigError(name) == [kind |-> "ConfigError", name |-> name]

(* wrangle_na with an unknown selector taken for the default 'cc'. *)
wrangle_na_default(t, method) ==
    CASE method = "fi" -> {[table |-> FillImputation(t), error |-> NoError]}
      [] method = "fii" -> {[table |-> FillIndicators(t), error |-> NoError]}
      [] method = "gm" -> {[table |-> Gelman(t), error |-> NoError]}
      [] method = "mice" -> {[table |-> d, error |-> NoError] : d \in Mice(t)}
      [] OTHER -> {[table |-> CompleteCase(t), error |-> NoError]}

(* wrangle_na(data, method): the possible outcomes, each a table and an    *)
(* error; an unknown selector gives the error and no table.                *)
wrangle_na(t, method) ==
    CASE method = "cc" -> {[table |-> CompleteCase(t), error |-> NoError]}
      [] method = "fi" -> {[table |-> FillImputation(t), error |-> NoError]}
      [] method = "fii" -> {[table |-> FillIndicators(t), error |-> NoError]}
      [] method = "gm" -> {[table |-> Gelman(t), error |-> NoError]}
      [] method = "mice" -> {[table |-> d, error |-> NoError] : d \in Mice(t)}
      [] OTHER -> {[table |-> NoTable, error |-> ConfigError(method)]}

----------------------------------------------------------------------------
(* Input tables of wrangle_na *)

(* The typed feature columns of the wrangle_na tests and the values an     *)
(* enumerated column draws its cells from.                                 *)
FeatureDtype == [int_x |-> "Int64", float_x |-> "float",
                 cat_x |-> "category", bool_x |-> "boolean"]

FeatureValues == [int_x |-> {1, 4}, float_x |-> {<<3, 2>>, <<5, 2>>},
                  cat_x |-> {"A", "B"}, bool_x |-> {FALSE, TRUE}]

(* The column sets of the enumerated tables: one feature or two, in the    *)
(* order of the tests.                                                     *)
Schemas ==
    {<<"int_x">>, <<"float_x">>, <<"cat_x">>, <<"bool_x">>,
     <<"int_x", "float_x">>, <<"int_x", "cat_x">>, <<"int_x", "bool_x">>,
     <<"float_x", "cat_x">>, <<"float_x", "bool_x">>, <<"cat_x", "bool_x">>}

Cells(name) == {NA} \cup {Val(v) : v \in FeatureValues[name]}

RECURSIVE SchemaColumns(_, _)
SchemaColumns(schema, n) ==
    IF schema = <<>> THEN {<<>>}
    ELSE {<<[name |-> Head(schema), dtype |-> FeatureDtype[Head(schema)], values |-> v]>>
            \o rest :
            v \in [1..n -> Cells(Head(schema))],
            rest \in SchemaColumns(Tail(schema), n)}

(* The tables of n rows over a column set. *)
EnumeratedTables(schema, n) ==
    {[index |-> RangeIndex(n), columns |-> cs] : cs \in SchemaColumns(schema, n)}

Column(name, dtype, vs) == [name |-> name, dtype |-> dtype, values |-> vs]

(* A decimal number m / 10 as a float. *)
Tenths(m) == Val(Rat(m, 10))

(* The table of test_wrangle_na_fi, test_wrangle_na_fii, test_wrangle_na_gm. *)
TestData ==
    [index |-> RangeIndex(4),
     columns |-> <<
        Column("int_x", "Int64", <<Val(1), Val(2), NA, Val(4)>>),
        Column("float_x", "float", <<Tenths(15), NA, Tenths(25), Tenths(20)>>),
        Column("cat_x", "category", <<Val("A"), Val("A"), Val("B"), NA>>),
        Column("bool_x", "boolean", <<Val(FALSE), Val(TRUE), Val(FALSE), NA>>)>>]

(* The numeric columns of the example 'airquality_na', as read_csv reads   *)
(* them: a numeric column with missing entries is a float column.          *)
AirQualityNumeric ==
    <<Column("Ozone", "float",
        <<Tenths(410), Tenths(360), Tenths(120), NA, NA,
          Tenths(280), Tenths(230), Tenths(190), Tenths(80), NA>>),
      Column("Solar.R", "float",
        <<Tenths(1900), Tenths(1180), Tenths(1490), Tenths(3130), NA,
          NA, Tenths(2990), Tenths(990), Tenths(190), Tenths(1940)>>),
      Column("Wind", "float",
        <<Tenths(74), Tenths(80), Tenths(126), Tenths(115), Tenths(143),
          Tenths(149), Tenths(86), Tenths(138), Tenths(201), NA>>)>>

(* 'airquality_na' as read: fake_dummy is a float column of 0 and 1. *)
airquality_na ==
    [index |-> RangeIndex(10),
     columns |-> AirQualityNumeric \o
        <<Column("fake_dummy", "float",
            <<Tenths(0), Tenths(0), Tenths(0), Tenths(10), Tenths(10),
              Tenths(10), Tenths(10), Tenths(10), Tenths(10), NA>>)>>]

(* 'airquality_na' with fake_dummy made a nullable boolean column          *)
(* (dummy_to_bool).                                                        *)
airquality_bool ==
    [index |-> RangeIndex(10),
     columns |-> AirQualityNumeric \o
        <<Column("fake_dummy", "boolean",
            <<Val(FALSE), Val(FALSE), Val(FALSE), Val(TRUE), Val(TRUE),
              Val(TRUE), Val(TRUE), Val(TRUE), Val(TRUE), NA>>)>>]

(* The selectors a run of wrangle_na_pipeline is given: the known ones and *)
(* two that are not.                                                       *)
Selectors == Strategies \cup {"knn", "CC"}

----------------------------------------------------------------------------
(* The state machine *)

----------------------------------------------------------------------------
(* _column_wrangler: column labels in a consistent format.  Here a label   *)
(* is the sequence of its characters.                                      *)

LowerCase ==
    [A |-> "a", B |-> "b", C |-> "c", D |-> "d", E |-> "e", F |-> "f", G |-> "g",
     H |-> "h", I |-> "i", J |-> "j", K |-> "k", L |-> "l", M |-> "m", N |-> "n",
     O |-> "o", P |-> "p", Q |-> "q", R |-> "r", S |-> "s", T |-> "t", U |-> "u",
     V |-> "v", W |-> "w", X |-> "x", Y |-> "y", Z |-> "z"]

Lower(label) ==
    [i \in 1..Len(label) |->
        IF label[i] \in DOMAIN LowerCase THEN LowerCase[label[i]] ELSE label[i]]

IsSpace(c) == c \in {" ", "\t", "\n"}

RECURSIVE LStrip(_)
LStrip(label) ==
    IF label # <<>> /\ IsSpace(Head(label)) THEN LStrip(Tail(label)) ELSE label

RECURSIVE RStrip(_)
RStrip(label) ==
    IF label # <<>> /\ IsSpace(label[Len(label)])
    THEN RStrip(SubSeq(label, 1, Len(label) - 1))
    ELSE label

Strip(label) == RStrip(LStrip(label))

(* Underscore with every whitespace character replaced on its own. *)
UnderscoreEach(label) ==
    [i \in 1..Len(label) |-> IF IsSpace(label[i]) THEN "_" ELSE label[i]]

(* Every run of whitespace replaced by one underscore. *)
RECURSIVE Underscore(_)
Underscore(label) ==
    IF label = <<>> THEN <<>>
    ELSE IF IsSpace(Head(label)) THEN <<"_">> \o Underscore(LStrip(label))
    ELSE <<Head(label)>> \o Underscore(Tail(label))

CanonicalLabel(label) == Underscore(Lower(Strip(label)))

_column_wrangler(t) ==
    [t EXCEPT !.columns =
        [j \in 1..NumCols(t) |-> [t.columns[j] EXCEPT !.name = CanonicalLabel(@)]]]

(* The table of test_column_wrangler and the labels it expects. *)
ColumnData ==
    [index |-> RangeIndex(3),
     columns |-> <<
        Column(<<"c", "o", "l", "u", "m", "n", "1">>, "int64", <<Val(1), Val(2), Val(3)>>),
        Column(<<"c", "O", "L", "U", "m", "n", "2">>, "int64", <<Val(1), Val(2), Val(3)>>),
        Column(<<" ", " ", " ", " ", "c", "O", "L", "U", "m", "n", "3", " ">>, "int64",
               <<Val(1), Val(2), Val(3)>>),
        Column(<<" ", "c", "o", "l", "u", "m", "n", " ", " ", "4", " ">>, "int64",
               <<Val(1), Val(2), Val(3)>>)>>]

ExpectedLabels ==
    <<<<"c", "o", "l", "u", "m", "n", "1">>, <<"c", "o", "l", "u", "m", "n", "2">>,
      <<"c", "o", "l", "u", "m", "n", "3">>, <<"c", "o", "l", "u", "m", "n", "_", "4">>>>

(* The characters of an enumerated label. *)
Alphabet == {"c", "O", " ", "\t", "_"}

Labels == UNION {[1..n -> Alphabet] : n \in 0..MaxLabelLen}

(* The enumerated tables of _column_wrangler: a column of any label next   *)
(* to a column of the test.                                                *)
LabelTables ==
    {[index |-> RangeIndex(3),
      columns |-> <<Column(l, "int64", <<Val(1), Val(2), Val(3)>>), ColumnData.columns[k]>>] :
        l \in Labels, k \in {2, 4}}

----------------------------------------------------------------------------
(* _factor_wrangler: the columns of is_cat made categorical.  A            *)
(* categorical column carries its category list in the field categories.   *)

(* The strings of the categorical examples in sorted order. *)
StringOrder == <<"10", "A", "A#", "B", "C", "D">>

Rank(v, dtype) ==
    IF dtype = "int64" THEN v
    ELSE CHOOSE k \in 1..Len(StringOrder) : StringOrder[k] = v

RECURSIVE SortByRank(_, _)
SortByRank(S, dtype) ==
    IF S = {} THEN <<>>
    ELSE LET low == CHOOSE v \in S : \A w \in S : Rank(v, dtype) <= Rank(w, dtype)
         IN  <<low>> \o SortByRank(S \ {low}, dtype)

(* Categorical with the categories that are not observed dropped. *)
CategoricalObserved(col, cats) ==
    [name |-> col.name,
     dtype |-> "category",
     categories |-> SelectSeq(cats, LAMBDA c : c \in Range(Observed(col.values))),
     values |-> [i \in 1..Len(col.values) |->
                    IF IsNA(col.values[i]) \/ col.values[i][1] \notin Range(cats)
                    THEN NA ELSE col.values[i]]]

(* A column as a categorical with the category list cats: a value that is  *)
(* no category becomes missing.                                            *)
Categorical(col, cats) ==
    [name |-> col.name,
     dtype |-> "category",
     categories |-> cats,
     values |-> [i \in 1..Len(col.values) |->
                    IF IsNA(col.values[i]) \/ col.values[i][1] \notin Range(cats)
                    THEN NA ELSE col.values[i]]]

(* The categorical of a column: restricted to categories[name] when given, *)
(* else with the observed values, sorted, as categories.                   *)
FactorColumn(col, cats) ==
    IF col.name \in DOMAIN cats
    THEN Categorical(col, cats[col.name])
    ELSE Categorical(col, SortByRank(Range(Observed(col.values)), col.dtype))

_factor_wrangler(t, cols, cats) ==
    [t EXCEPT !.columns =
        [j \in 1..NumCols(t) |->
            IF t.columns[j].name \in Range(cols)
            THEN FactorColumn(t.columns[j], cats)
            ELSE t.columns[j]]]

(* No categories restriction (an empty dict), no column named. *)
NoCategories == <<>>

NoColumns == <<>>

(* The table, the restriction and the expected table of                    *)
(* test_factor_wrangler_cats.                                              *)
FactorData ==
    [index |-> RangeIndex(5),
     columns |-> <<
        Column("non_neg", "int64", <<Val(-1), Val(0), Val(1), Val(2), Val(3)>>),
        Column("only_alpha", "object",
               <<Val("A#"), Val("B"), Val("C"), Val("D"), Val("10")>>)>>]

FactorCategories ==
    [non_neg |-> <<0, 1, 2, 3>>, only_alpha |-> <<"A", "B", "C", "D">>]

ExpectedFactorColumns ==
    <<[name |-> "non_neg", dtype |-> "category", categories |-> <<0, 1, 2, 3>>,
       values |-> <<NA, Val(0), Val(1), Val(2), Val(3)>>],
      [name |-> "only_alpha", dtype |-> "category", categories |-> <<"A", "B", "C", "D">>,
       values |-> <<NA, Val("B"), Val("C"), Val("D"), NA>>]>>

(* The enumerated tables of _factor_wrangler and the restrictions and      *)
(* column lists they are wrangled with.                                    *)
FactorTables(n) ==
    {[index |-> RangeIndex(n),
      columns |-> <<Column("non_neg", "int64", [i \in 1..n |-> Val(x[i])]),
                    Column("only_alpha", "object", [i \in 1..n |-> Val(y[i])])>>] :
        x \in [1..n -> {-1, 0, 1}], y \in [1..n -> {"A#", "B"}]}

CategoryDicts ==
    <<NoCategories,
      [non_neg |-> <<0, 1>>],
      [non_neg |-> <<1, 0, 2>>],
      [only_alpha |-> <<"A", "B">>],
      [non_neg |-> <<1>>, only_alpha |-> <<"B", "A">>],
      FactorCategories>>

ColumnLists == {<<"non_neg", "only_alpha">>, <<"non_neg">>, <<"only_alpha">>}

----------------------------------------------------------------------------
(* e2e_pipeline: the flow of the preprocessing, modelling and              *)
(* postprocessing tasks.  A task is a record [state, runs, inputs]: its    *)
(* run state, the number of times it has been started and the tasks whose  *)
(* results it was started with.                                            *)

Tasks ==
    {"retrieve_data", "clean_data", "encode_data", "wrangle_na", "transform_data",
     "gelman_standardize_data", "run_model", "plot_confidence_intervals"}

(* Upstream with transform_data given the encoded table. *)
UpstreamTransformEncoded ==
    [retrieve_data |-> {},
     clean_data |-> {"retrieve_data"},
     encode_data |-> {"clean_data"},
     wrangle_na |-> {"encode_data"},
     transform_data |-> {"encode_data"},
     gelman_standardize_data |-> {"transform_data"},
     run_model |-> {"gelman_standardize_data"},
     plot_confidence_intervals |-> {"run_model"}]

(* The tasks whose result a task is called with. *)
Upstream ==
    [retrieve_data |-> {},
     clean_data |-> {"retrieve_data"},
     encode_data |-> {"clean_data"},
     wrangle_na |-> {"encode_data"},
     transform_data |-> {"wrangle_na"},
     gelman_standardize_data |-> {"transform_data"},
     run_model |-> {"gelman_standardize_data"},
     plot_confidence_intervals |-> {"run_model"}]

PendingTasks == [t \in Tasks |-> [state |-> "Pending", runs |-> 0, inputs |-> {}]]

InitWrangle ==
    /\ op = "wrangle_na"
    /\ \/ \E schema \in Schemas, n \in 1..MaxRows : data \in EnumeratedTables(schema, n)
       \/ data = TestData
       \/ data = airquality_na
       \/ data = airquality_bool
    /\ strategy = "cc"
    /\ is_cat = NoColumns
    /\ categories = NoCategories
    /\ result = NoTable
    /\ error = NoError
    /\ calls = 0
    /\ tasks = PendingTasks

(* A run of the flow wrangle_na_pipeline with the parameters data and      *)
(* strategy.  The draws of 'mice' are enumerated for tables of at most     *)
(* MaxRows rows.                                                           *)
wrangle_na_pipeline ==
    /\ op = "wrangle_na"
    /\ calls = 0
    /\ \E method \in Selectors :
         /\ method = "mice" => NumRows(data) <= MaxRows
         /\ \E out \in wrangle_na(data, method) :
            /\ strategy' = method
            /\ result' = out.table
            /\ error' = out.error
    /\ calls' = 1
    /\ UNCHANGED <<op, data, is_cat, categories, tasks>>

InitColumns ==
    /\ op = "_column_wrangler"
    /\ data \in LabelTables \cup {ColumnData}
    /\ strategy = "cc"
    /\ is_cat = NoColumns
    /\ categories = NoCategories
    /\ result = NoTable
    /\ error = NoError
    /\ calls = 0
    /\ tasks = PendingTasks

(* _column_wrangler(data). *)
column_wrangler ==
    /\ op = "_column_wrangler"
    /\ calls = 0
    /\ result' = _column_wrangler(data)
    /\ calls' = 1
    /\ UNCHANGED <<op, data, strategy, is_cat, categories, error, tasks>>

(* _column_wrangler applied to the table it returned. *)
column_wrangler_again ==
    /\ op = "_column_wrangler"
    /\ calls = 1
    /\ result' = _column_wrangler(result)
    /\ calls' = 2
    /\ UNCHANGED <<op, data, strategy, is_cat, categories, error, tasks>>

InitFactor ==
    /\ op = "_factor_wrangler"
    /\ \/ \E n \in 1..MaxRows : data \in FactorTables(n)
       \/ data = FactorData
    /\ strategy = "cc"
    /\ is_cat \in ColumnLists
    /\ \E k \in 1..Len(CategoryDicts) :
         /\ DOMAIN CategoryDicts[k] \subseteq Range(is_cat)
         /\ categories = CategoryDicts[k]
    /\ result = NoTable
    /\ error = NoError
    /\ calls = 0
    /\ tasks = PendingTasks

(* _factor_wrangler(data, is_cat, categories=categories, str_to_cat=False, *)
(* dummy_to_bool=False).                                                   *)
factor_wrangler ==
    /\ op = "_factor_wrangler"
    /\ calls = 0
    /\ result' = _factor_wrangler(data, is_cat, categories)
    /\ calls' = 1
    /\ UNCHANGED <<op, data, strategy, is_cat, categories, error, tasks>>

(* A run of e2e_pipeline; na_strategy is the selector wrangle_na is given. *)
InitPipeline ==
    /\ op = "e2e_pipeline"
    /\ data = NoTable
    /\ strategy \in Selectors
    /\ is_cat = NoColumns
    /\ categories = NoCategories
    /\ result = NoTable
    /\ error = NoError
    /\ calls = 0
    /\ tasks = PendingTasks

(* A task is started once the tasks that produce its arguments have        *)
(* succeeded.                                                              *)
task_run(t) ==
    /\ op = "e2e_pipeline"
    /\ tasks[t].state = "Pending"
    /\ \A u \in Upstream[t] : tasks[u].state = "Success"
    /\ tasks' = [tasks EXCEPT ![t] =
                    [state |-> "Running", runs |-> @.runs + 1, inputs |-> Upstream[t]]]
    /\ UNCHANGED <<op, data, strategy, is_cat, categories, result, error, calls>>

(* A running task returns; wrangle_na does so for a selector it knows. *)
task_success(t) ==
    /\ op = "e2e_pipeline"
    /\ tasks[t].state = "Running"
    /\ t = "wrangle_na" => strategy \in Strategies
    /\ tasks' = [tasks EXCEPT ![t].state = "Success"]
    /\ UNCHANGED <<op, data, strategy, is_cat, categories, result, error, calls>>

(* A running task raises. *)
task_fail(t) ==
    /\ op = "e2e_pipeline"
    /\ tasks[t].state = "Running"
    /\ tasks' = [tasks EXCEPT ![t].state = "Failed"]
    /\ error' = IF t = "wrangle_na" /\ strategy \notin Strategies
                THEN ConfigError(strategy) ELSE error
    /\ UNCHANGED <<op, data, strategy, is_cat, categories, result, calls>>

(* A task whose upstream task did not succeed is not run. *)
trigger_fail(t) ==
    /\ op = "e2e_pipeline"
    /\ tasks[t].state = "Pending"
    /\ \E u \in Upstream[t] : tasks[u].state \in {"Failed", "TriggerFailed"}
    /\ tasks' = [tasks EXCEPT ![t].state = "TriggerFailed"]
    /\ UNCHANGED <<op, data, strategy, is_cat, categories, result, error, calls>>

Init == InitWrangle \/ InitColumns \/ InitFactor \/ InitPipeline

Next ==
    \/ wrangle_na_pipeline
    \/ column_wrangler
    \/ column_wrangler_again
    \/ factor_wrangler
    \/ \E t \in Tasks : task_run(t)
    \/ \E t \in Tasks : task_success(t)
    \/ \E t \in Tasks : task_fail(t)
    \/ \E t \in Tasks : trigger_fail(t)

Spec == Init /\ [][Next]_vars

----------------------------------------------------------------------------
(* The tables the tests expect of wrangle_na on TestData *)

Names(t) == [j \in 1..NumCols(t) |-> t.columns[j].name]

Dtypes(t) == [j \in 1..NumCols(t) |-> t.columns[j].dtype]

(* t is the table u: the labels and dtypes are compared first, since cells *)
(* of different dtypes are not comparable.                                 *)
IsTable(t, u) == Names(t) = Names(u) /\ Dtypes(t) = Dtypes(u) /\ t = u

Bools(bits) == [i \in 1..Len(bits) |-> Val(bits[i] = 1)]

ExpectedFiColumns ==
    <<Column("int_x", "Int64", <<Val(1), Val(2), Val(2), Val(4)>>),
      Column("float_x", "float", <<Tenths(15), Tenths(20), Tenths(25), Tenths(20)>>),
      Column("cat_x", "category", <<Val("A"), Val("A"), Val("B"), Val("A")>>),
      Column("bool_x", "boolean", <<Val(FALSE), Val(TRUE), Val(FALSE), Val(FALSE)>>)>>

ExpectedFiiColumns ==
    ExpectedFiColumns \o
    <<Column("na_1000", "boolean", Bools(<<0, 0, 1, 0>>)),
      Column("na_0100", "boolean", Bools(<<0, 1, 0, 0>>)),
      Column("na_0011", "boolean", Bools(<<0, 0, 0, 1>>))>>

ExpectedGmColumns ==
    ExpectedFiiColumns \o
    <<Column("Q(\"int_x\"):Q(\"na_1000\")", "Int64", <<Val(1), Val(2), NA, Val(4)>>),
      Column("Q(\"int_x\"):Q(\"na_0100\")", "Int64", <<Val(1), NA, Val(2), Val(4)>>),
      Column("Q(\"int_x\"):Q(\"na_0011\")", "Int64", <<Val(1), Val(2), Val(2), NA>>),
      Column("Q(\"float_x\"):Q(\"na_1000\")", "float",
             <<Tenths(15), Tenths(20), NA, Tenths(20)>>),
      Column("Q(\"float_x\"):Q(\"na_0100\")", "float",
             <<Tenths(15), NA, Tenths(25), Tenths(20)>>),
      Column("Q(\"float_x\"):Q(\"na_0011\")", "float",
             <<Tenths(15), Tenths(20), Tenths(25), NA>>),
      Column("Q(\"cat_x\"):Q(\"na_1000\")", "category",
             <<Val("A"), Val("A"), NA, Val("A")>>),
      Column("Q(\"cat_x\"):Q(\"na_0100\")", "category",
             <<Val("A"), NA, Val("B"), Val("A")>>),
      Column("Q(\"cat_x\"):Q(\"na_0011\")", "category",
             <<Val("A"), Val("A"), Val("B"), NA>>),
      Column("Q(\"bool_x\"):Q(\"na_1000\")", "boolean",
             <<Val(FALSE), Val(TRUE), NA, Val(FALSE)>>),
      Column("Q(\"bool_x\"):Q(\"na_0100\")", "boolean",
             <<Val(FALSE), NA, Val(FALSE), Val(FALSE)>>),
      Column("Q(\"bool_x\"):Q(\"na_0011\")", "boolean",
             <<Val(FALSE), Val(TRUE), Val(FALSE), NA>>)>>

(* A float rounded to five decimals, as the examples print it. *)
Round5(r) == Rat((2 * r[1] * 100000 + r[2]) \div (2 * r[2]), 100000)

RoundColumn(col) ==
    IF col.dtype # "float" THEN col
    ELSE [col EXCEPT !.values =
            [i \in 1..Len(col.values) |->
                IF IsNA(col.values[i]) THEN NA ELSE Val(Round5(col.values[i][1]))]]

(* A decimal number m / 100000 as a float. *)
Decimal5(m) == Val(Rat(m, 100000))

(* The example 'airquality_imputed', fake_dummy as a boolean column. *)
airquality_imputed ==
    <<Column("Ozone", "float",
        <<Tenths(410), Tenths(360), Tenths(120), Decimal5(2385714), Decimal5(2385714),
          Tenths(280), Tenths(230), Tenths(190), Tenths(80), Decimal5(2385714)>>),
      Column("Solar.R", "float",
        <<Tenths(1900), Tenths(1180), Tenths(1490), Tenths(3130), Decimal5(17262500),
          Decimal5(17262500), Tenths(2990), Tenths(990), Tenths(190), Tenths(1940)>>),
      Column("Wind", "float",
        <<Tenths(74), Tenths(80), Tenths(126), Tenths(115), Tenths(143),
          Tenths(149), Tenths(86), Tenths(138), Tenths(201), Decimal5(1235556)>>),
      Column("fake_dummy", "boolean",
        <<Val(FALSE), Val(FALSE), Val(FALSE), Val(TRUE), Val(TRUE),
          Val(TRUE), Val(TRUE), Val(TRUE), Val(TRUE), Val(TRUE)>>)>>

IsAirQuality(t) == NumRows(t) = 10 /\ IsTable(t, airquality_bool)

(* The outcome of every test of wrangle_na is the outcome of the model. *)
TestsPass ==
    (op = "wrangle_na" /\ calls = 1 /\ NumRows(data) = 4 /\ IsTable(data, TestData)) =>
        /\ strategy = "fi" => result.columns = ExpectedFiColumns
        /\ strategy = "fii" => result.columns = ExpectedFiiColumns
        /\ strategy = "gm" => result.columns = ExpectedGmColumns
        /\ strategy \in {"fi", "fii", "gm"} => result.index = RangeIndex(4)

TestColumnsPass ==
    (op = "_column_wrangler" /\ calls = 1 /\ NumCols(data) = 4) =>
        Names(result) = ExpectedLabels

TestFactorPass ==
    (op = "_factor_wrangler" /\ calls = 1 /\ NumRows(data) = 5
        /\ Len(is_cat) = 2 /\ DOMAIN categories = {"non_neg", "only_alpha"}
        /\ Len(categories.non_neg) = 4) =>
        result.columns = ExpectedFactorColumns

ExamplesPass ==
    (op = "wrangle_na" /\ calls = 1 /\ NumRows(data) = 10) =>
        /\ strategy = "cc" => result.index = <<0, 1, 2, 6, 7, 8>> /\ NumCols(result) = 4
        /\ (strategy = "fi" /\ IsAirQuality(data)) =>
              [j \in 1..4 |-> RoundColumn(result.columns[j])] = airquality_imputed

----------------------------------------------------------------------------
(* Properties of wrangle_na *)

Wrangled(method) == op = "wrangle_na" /\ calls = 1 /\ strategy = method

HasMissing(t, i) == \E j \in 1..NumCols(t) : IsNA(t.columns[j].values[i])

(* The position in t of the row with identifier id. *)
RowOf(t, id) == CHOOSE i \in 1..NumRows(t) : t.index[i] = id

(* C1: 'cc' returns exactly the fully observed rows of the input, each     *)
(* with its own identifier and cells, in the original order; the columns   *)
(* are those of the input and no cell of the output is missing.            *)
C1_CompleteCase ==
    Wrangled("cc") =>
        /\ error = NoError
        /\ Names(result) = Names(data)
        /\ Dtypes(result) = Dtypes(data)
        /\ Range(result.index) = {data.index[i] : i \in {r \in 1..NumRows(data) : ~HasMissing(data, r)}}
        /\ \A k \in 1..NumRows(result) :
            /\ \A l \in (k + 1)..NumRows(result) :
                RowOf(data, result.index[k]) < RowOf(data, result.index[l])
            /\ \A j \in 1..NumCols(data) :
                /\ Len(result.columns[j].values) = NumRows(result)
                /\ result.columns[j].values[k] = data.columns[j].values[RowOf(data, result.index[k])]
                /\ ~IsNA(result.columns[j].values[k])

(* A row is dropped and a later row is kept: its identifier is not its     *)
(* position in the output.                                                 *)
C1_Witness ==
    /\ Wrangled("cc")
    /\ NumRows(result) < NumRows(data)
    /\ \E k \in 1..NumRows(result) : result.index[k] # k - 1

(* The number of observed values of a column that satisfy P. *)
Among(obs, P(_)) == Cardinality({i \in 1..Len(obs) : P(obs[i])})

FirstAt(obs, v) == CHOOSE i \in 1..Len(obs) : obs[i] = v /\ \A j \in 1..(i - 1) : obs[j] # v

(* x is the value 'fi' fills a column of this dtype and these observed     *)
(* values with.                                                            *)
IsFill(dtype, obs, x) ==
    CASE dtype = "float" -> Rat(x[1] * Len(obs), x[2]) = RatSum(obs)
      [] dtype = "Int64" ->
            /\ x \in Int
            /\ 2 * Among(obs, LAMBDA v : v <= x) >= Len(obs)
            /\ 2 * Among(obs, LAMBDA v : v >= x) >= Len(obs)
      [] OTHER ->
            /\ x \in Range(obs)
            /\ \A y \in Range(obs) \ {x} :
                \/ Among(obs, LAMBDA v : v = y) < Among(obs, LAMBDA v : v = x)
                \/ /\ Among(obs, LAMBDA v : v = y) = Among(obs, LAMBDA v : v = x)
                   /\ FirstAt(obs, x) < FirstAt(obs, y)

(* C2: 'fi' fills every column on its own: a missing cell of a float       *)
(* column becomes the mean of the observed values, of an integer column    *)
(* their median as an integer, of a categorical or boolean column the most *)
(* frequent observed value, the first met of several; the other cells, the *)
(* rows and the row identifiers are those of the input.                    *)
C2_FillImputation ==
    Wrangled("fi") =>
        /\ error = NoError
        /\ result.index = data.index
        /\ Names(result) = Names(data)
        /\ \A j \in 1..NumCols(data) :
            LET old == data.columns[j].values
                new == result.columns[j].values
                obs == Observed(old)
            IN  /\ Len(new) = Len(old)
                /\ \A i \in 1..Len(old) :
                    /\ ~IsNA(old[i]) => new[i] = old[i]
                    /\ (IsNA(old[i]) /\ obs # <<>>) =>
                        /\ ~IsNA(new[i])
                        /\ IsFill(data.columns[j].dtype, obs, new[i][1])

(* A missing categorical cell is filled where two values are equally       *)
(* frequent and the first met is not the smaller, and a missing integer    *)
(* cell where the median is no observed value.                             *)
C2_Witness ==
    /\ Wrangled("fi")
    /\ NumRows(data) = 3
    /\ Names(data) = <<"int_x", "cat_x">>
    /\ data.columns[1].values = <<Val(4), NA, Val(1)>>
    /\ data.columns[2].values = <<Val("B"), Val("A"), NA>>
    /\ result.columns[1].values[2] = Val(2)
    /\ result.columns[2].values[3] = Val("B")

(* C3: under 'fi', 'fii' and 'gm' every column of the input has in the     *)
(* output the label and the declared type it has in the input.             *)
C3_TypePreservation ==
    (op = "wrangle_na" /\ calls = 1 /\ strategy \in {"fi", "fii", "gm"}) =>
        /\ NumCols(result) >= NumCols(data)
        /\ \A j \in 1..NumCols(data) :
            /\ result.columns[j].name = data.columns[j].name
            /\ result.columns[j].dtype = data.columns[j].dtype

(* A nullable integer column with a missing entry has been filled. *)
C3_Witness ==
    /\ Wrangled("gm")
    /\ \E j \in 1..NumCols(data) :
        /\ data.columns[j].dtype = "Int64"
        /\ \E i \in 1..NumRows(data) :
            IsNA(data.columns[j].values[i]) /\ ~IsNA(result.columns[j].values[i])

(* The bit string of the missingness pattern of row i, from column j on. *)
RECURSIVE RowBits(_, _, _)
RowBits(t, i, j) ==
    IF j > NumCols(t) THEN ""
    ELSE (IF IsNA(t.columns[j].values[i]) THEN "1" ELSE "0") \o RowBits(t, i, j + 1)

RECURSIVE Zeros(_)
Zeros(n) == IF n = 0 THEN "" ELSE "0" \o Zeros(n - 1)

(* The labels of the indicator columns the rows of t call for. *)
PatternLabels(t) ==
    {"na_" \o RowBits(t, i, 1) : i \in {r \in 1..NumRows(t) : HasMissing(t, r)}}

(* The columns 'fii' and 'gm' put after the features: one per pattern. *)
IndicatorColumns(t, r) ==
    [k \in 1..Cardinality(PatternLabels(t)) |-> r.columns[NumCols(t) + k]]

(* C4: the indicator columns of 'fii' and 'gm' are one to one with the     *)
(* distinct patterns of the input that have a missing column: each is a    *)
(* boolean column labelled na_ and the bit string of its pattern, true     *)
(* exactly in the rows of that pattern, so a row with a missing cell has   *)
(* one true indicator, a fully observed row none, and the pattern without  *)
(* a missing column has no column.                                         *)
C4_Indicators ==
    (op = "wrangle_na" /\ calls = 1 /\ strategy \in {"fii", "gm"}) =>
        LET n == NumCols(data)
            K == Cardinality(PatternLabels(data))
            ind == IndicatorColumns(data, result)
        IN  /\ NumCols(result) = IF strategy = "fii" THEN n + K ELSE n + K + n * K
            /\ {ind[k].name : k \in 1..K} = PatternLabels(data)
            /\ \A k \in 1..K :
                /\ ind[k].dtype = "boolean"
                /\ ind[k].name # "na_" \o Zeros(n)
                /\ Len(ind[k].values) = NumRows(data)
                /\ \A i \in 1..NumRows(data) :
                    ind[k].values[i] = Val(ind[k].name = "na_" \o RowBits(data, i, 1))
            /\ \A i \in 1..NumRows(data) :
                Cardinality({k \in 1..K : ind[k].values[i] = Val(TRUE)})
                    = IF HasMissing(data, i) THEN 1 ELSE 0

(* Three rows with three different patterns, one of them contained in      *)
(* another, and three indicator columns.                                   *)
C4_Witness ==
    /\ Wrangled("fii")
    /\ NumCols(data) = 2
    /\ NumCols(result) = 5
    /\ {result.columns[k].name : k \in 3..5} = {"na_10", "na_01", "na_11"}

InteractionColumns(t, r) ==
    LET n == NumCols(t)
        K == Cardinality(PatternLabels(t))
    IN  [m \in 1..(NumCols(r) - n - K) |-> r.columns[n + K + m]]

(* The columns of r with this label. *)
Labelled(r, label) == {m \in 1..NumCols(r) : r.columns[m].name = label}

(* The label of the interaction of the feature f with the indicator d. *)
PairLabel(f, d) == "Q(\"" \o f \o "\"):Q(\"" \o d \o "\")"

(* The original statement of C5: one interaction column per feature and    *)
(* indicator and no cell of an interaction column missing.  It is stated   *)
(* for the inputs whose every column has an observed value, so that every  *)
(* feature cell is filled.                                                 *)
C5_NoMissingInteraction ==
    (Wrangled("gm") /\ \A j \in 1..NumCols(data) : Observed(data.columns[j].values) # <<>>) =>
        LET n == NumCols(data)
            K == Cardinality(PatternLabels(data))
            ind == IndicatorColumns(data, result)
            inter == InteractionColumns(data, result)
        IN  /\ Len(inter) = n * K
            /\ \A m \in 1..Len(inter), i \in 1..NumRows(data) : ~IsNA(inter[m].values[i])

(* C5, amended: under 'gm' one interaction column is appended for every    *)
(* feature and indicator; in a row where the indicator is false its cell   *)
(* is the filled feature value, also where the input value was missing,    *)
(* and in a row where the indicator is true its cell is missing.           *)
C5_Interactions ==
    Wrangled("gm") =>
        LET n == NumCols(data)
            K == Cardinality(PatternLabels(data))
            ind == IndicatorColumns(data, result)
            inter == InteractionColumns(data, result)
        IN  /\ Len(inter) = n * K
            /\ \A j \in 1..n, k \in 1..K :
                LET at == Labelled(result, PairLabel(result.columns[j].name, ind[k].name))
                IN  /\ Cardinality(at) = 1
                    /\ at \subseteq (n + K + 1)..NumCols(result)
                    /\ \A m \in at, i \in 1..NumRows(data) :
                        /\ result.columns[m].values[i] =
                            IF ind[k].values[i] = Val(TRUE) THEN NA
                            ELSE result.columns[j].values[i]
                        /\ (ind[k].values[i] = Val(FALSE) /\ IsNA(data.columns[j].values[i])
                                /\ Observed(data.columns[j].values) # <<>>) =>
                            ~IsNA(result.columns[m].values[i])

(* A feature is missing in a row of one pattern and its interaction with   *)
(* the indicator of another pattern holds the filled value there.          *)
C5_Witness ==
    /\ Wrangled("gm")
    /\ Names(data) = <<"int_x", "cat_x">>
    /\ NumRows(data) = 3
    /\ data.columns[1].values = <<NA, Val(1), Val(4)>>
    /\ data.columns[2].values = <<Val("A"), NA, Val("B")>>
    /\ \E m \in Labelled(result, "Q(\"int_x\"):Q(\"na_01\")") :
        result.columns[m].values = <<Val(2), NA, Val(4)>>

(* C6: under 'gm' the interaction of the feature f with the indicator d is *)
(* labelled Q("f"):Q("d"), has the declared type of f and holds in every   *)
(* row the filled value of f where d is false and the missing marker where *)
(* d is true; the original and the indicator columns are those of 'fii'.   *)
C6_GelmanColumns ==
    Wrangled("gm") =>
        LET n == NumCols(data)
            fii == FillIndicators(data).columns
            K == Len(fii) - n
        IN  /\ result.index = data.index
            /\ NumCols(result) = n + K + n * K
            /\ \A m \in 1..(n + K) : result.columns[m] = fii[m]
            /\ \A j \in 1..n, k \in 1..K :
                \E m \in (n + K + 1)..NumCols(result) :
                    /\ result.columns[m].name = PairLabel(fii[j].name, fii[n + k].name)
                    /\ result.columns[m].dtype = data.columns[j].dtype
                    /\ Len(result.columns[m].values) = NumRows(data)
                    /\ \A i \in 1..NumRows(data) :
                        /\ fii[n + k].values[i] = Val(FALSE) =>
                            result.columns[m].values[i] = fii[j].values[i]
                        /\ fii[n + k].values[i] = Val(TRUE) =>
                            IsNA(result.columns[m].values[i])

(* The table of test_wrangle_na_gm is wrangled: twelve interaction columns *)
(* of four dtypes.                                                         *)
C6_Witness ==
    /\ Wrangled("gm")
    /\ NumCols(data) = 4
    /\ NumRows(data) = 4
    /\ NumCols(result) = 19
    /\ result.columns[13].name = "Q(\"float_x\"):Q(\"na_0011\")"
    /\ result.columns[13].dtype = "float"
    /\ IsNA(result.columns[13].values[4])

(* C7: wrangle_na given a selector that is none of cc, fi, fii, gm, mice   *)
(* returns no table and fails with a configuration error that names the    *)
(* selector.                                                               *)
C7_UnknownStrategy ==
    (op = "wrangle_na" /\ calls = 1 /\ strategy \notin {"cc", "fi", "fii", "gm", "mice"}) =>
        /\ result = NoTable
        /\ error.kind = "ConfigError"
        /\ error.name = strategy

(* A table with a fully observed row, which 'cc' would return, is given    *)
(* with the selector 'knn'.                                                *)
C7_Witness ==
    /\ op = "wrangle_na"
    /\ calls = 1
    /\ strategy = "knn"
    /\ error = [kind |-> "ConfigError", name |-> "knn"]
    /\ \E i \in 1..NumRows(data) : ~HasMissing(data, i)

----------------------------------------------------------------------------
(* Properties of _column_wrangler *)

Blank(c) == c = " " \/ c = "\t" \/ c = "\n"

Small(c) ==
    CASE c = "C" -> "c" [] c = "O" -> "o" [] c = "L" -> "l" [] c = "U" -> "u"
      [] OTHER -> c

(* The words of a label from position i on: its maximal runs of characters *)
(* that are not whitespace, in lowercase.                                  *)
RECURSIVE WordsFrom(_, _)
WordsFrom(label, i) ==
    IF i > Len(label) THEN <<>>
    ELSE IF Blank(label[i]) THEN WordsFrom(label, i + 1)
    ELSE LET e == CHOOSE e \in i..Len(label) :
                    /\ \A k \in i..e : ~Blank(label[k])
                    /\ e = Len(label) \/ Blank(label[e + 1])
         IN  <<[k \in 1..(e - i + 1) |-> Small(label[i + k - 1])]>> \o WordsFrom(label, e + 1)

RECURSIVE Joined(_)
Joined(words) ==
    IF words = <<>> THEN <<>>
    ELSE IF Len(words) = 1 THEN words[1]
    ELSE words[1] \o <<"_">> \o Joined(Tail(words))

(* C8: _column_wrangler turns every label into its words in lowercase      *)
(* joined by single underscores and leaves the cells alone, and applied to *)
(* its own result it returns the same table.                               *)
C8_ColumnWrangler ==
    (op = "_column_wrangler" /\ calls \in {1, 2}) =>
        /\ result.index = data.index
        /\ NumCols(result) = NumCols(data)
        /\ \A j \in 1..NumCols(data) :
            /\ result.columns[j].name = Joined(WordsFrom(data.columns[j].name, 1))
            /\ result.columns[j].dtype = data.columns[j].dtype
            /\ result.columns[j].values = data.columns[j].values

(* The table of test_column_wrangler has been wrangled twice. *)
C8_Witness ==
    /\ op = "_column_wrangler"
    /\ calls = 2
    /\ NumCols(data) = 4
    /\ data.columns[4].name = <<" ", "c", "o", "l", "u", "m", "n", " ", " ", "4", " ">>
    /\ result.columns[4].name = <<"c", "o", "l", "u", "m", "n", "_", "4">>
    /\ result.columns[2].name # data.columns[2].name

----------------------------------------------------------------------------
(* Properties of _factor_wrangler *)

(* C9: a column with a categories restriction becomes a categorical whose  *)
(* category list is the given list; a cell whose value is in the list      *)
(* keeps it and a cell whose value is not becomes missing.                 *)
C9_Categories ==
    (op = "_factor_wrangler" /\ calls = 1) =>
        \A j \in 1..NumCols(data) :
            (data.columns[j].name \in Range(is_cat) \cap DOMAIN categories) =>
                LET given == categories[data.columns[j].name]
                    old == data.columns[j].values
                    new == result.columns[j]
                IN  /\ new.name = data.columns[j].name
                    /\ new.dtype = "category"
                    /\ new.categories = given
                    /\ Len(new.values) = Len(old)
                    /\ \A i \in 1..Len(old) :
                        new.values[i] =
                            IF \E c \in 1..Len(given) : <<given[c]>> = old[i]
                            THEN old[i] ELSE NA

(* A restricted column holds a value outside the list and the list a value *)
(* that is not observed.                                                   *)
C9_Witness ==
    /\ op = "_factor_wrangler"
    /\ calls = 1
    /\ "non_neg" \in DOMAIN categories
    /\ categories.non_neg = <<1, 0, 2>>
    /\ data.columns[1].values = <<Val(-1), Val(1)>>
    /\ result.columns[1].values = <<NA, Val(1)>>
    /\ result.columns[1].categories = <<1, 0, 2>>

----------------------------------------------------------------------------
(* The air-quality example *)

(* A float as thousandths, rounded. *)
Thousandths(r) == (2 * r[1] * 1000 + r[2]) \div (2 * r[2])

----------------------------------------------------------------------------
(* Properties of e2e_pipeline *)

TaskOrder ==
    <<"retrieve_data", "clean_data", "encode_data", "wrangle_na", "transform_data",
      "gelman_standardize_data", "run_model", "plot_confidence_intervals">>

Started(t) == tasks[t].state \in {"Running", "Success", "Failed"}

Succeeded(t) == tasks[t].state = "Success"

(* C11: in a run of e2e_pipeline every task is run at most once and only   *)
(* after the task before it in the order retrieve_data, clean_data,        *)
(* encode_data, wrangle_na, transform_data, gelman_standardize_data,       *)
(* run_model, plot_confidence_intervals has finished: wrangle_na after     *)
(* cleaning and encoding, transform_data after wrangle_na and before       *)
(* standardization, and run_model on the standardized table only.          *)
C11_TaskOrder ==
    op = "e2e_pipeline" =>
        /\ \A k \in 1..Len(TaskOrder) :
            /\ tasks[TaskOrder[k]].runs <= 1
            /\ Started(TaskOrder[k]) <=> tasks[TaskOrder[k]].runs = 1
            /\ (Started(TaskOrder[k]) /\ k > 1) => Succeeded(TaskOrder[k - 1])
        /\ Started("wrangle_na") => Succeeded("clean_data") /\ Succeeded("encode_data")
        /\ Started("transform_data") => Succeeded("wrangle_na")
        /\ Started("gelman_standardize_data") => Succeeded("transform_data")
        /\ Started("run_model") => tasks["run_model"].inputs = {"gelman_standardize_data"}

(* A run in which every task has run and succeeded. *)
C11_Witness ==
    /\ op = "e2e_pipeline"
    /\ \A t \in Tasks : tasks[t].state = "Success" /\ tasks[t].runs = 1

====
